---- MODULE Spec2Model ----
(***************************************************************************)
(* MCQ-Mastery backend: the crop engine (services/image.py), the page      *)
(* renderer (services/pdf.py), the segmentation client                     *)
(* (services/gemini.py) and the request handlers (routers/analyze.py),     *)
(* modelled as one state machine that handles one request at a time, and   *)
(* the handlers' use of the service accessors by concurrent requests.      *)
(*                                                                         *)
(* Representation.  A data URL "data:image/png;base64,..." is a record     *)
(* [mime, w, h] (the pixel size of the encoded image), the empty string a  *)
(* record with mime = "" and Python's None a record or string named None.  *)
(* An exception is a record [exc |-> class name].  Floating point scaling  *)
(* int((v / 1000) * dim) is computed exactly; on the values enumerated     *)
(* here the two agree.                                                     *)
(***************************************************************************)
EXTENDS Integers, Sequences, FiniteSets, TLC

VARIABLES
    api_key,            \* os.getenv("GEMINI_API_KEY") is set
    _gemini_service,    \* services/gemini.py module global
    _pdf_service,       \* services/pdf.py module global
    _image_service,     \* services/image.py module global
    op,                 \* operation being executed ("idle" when none)
    pc,                 \* position inside the operation
    request,            \* the operation's arguments
    response,           \* what the operation answered
    doc,                \* fitz document handle: "none", "open", "closed"
    total_pages,        \* pdf_to_images: len(doc)
    images,             \* pdf_to_images: images rendered so far
    page_images,        \* analyze_pdf: the rendered pages
    all_questions,      \* analyze_pdf: flattened question list
    page_results,       \* analyze_pdf: per-page AnalysisResult
    result,             \* AnalysisResult of the image being processed
    img,                \* extract_crops: the decoded source image
    segments,           \* extract_crops: the segments argument
    cropped_segments,   \* extract_crops: output list so far
    log,                \* history of external effects of this request
    tasks               \* handler coroutines on the event loop (accessor use)

vars == << api_key, _gemini_service, _pdf_service, _image_service, op, pc,
           request, response, doc, total_pages, images, page_images,
           all_questions, page_results, result, img, segments,
           cropped_segments, log, tasks >>

-----------------------------------------------------------------------------
(* Bounds of the model *)

MaxPages == 2       \* pages of an uploaded document
MaxSegments == 2    \* questions per image / segments per crop request
MaxTasks == 2       \* requests handled concurrently by the event loop

-----------------------------------------------------------------------------
(* Values *)

None == "None"
EmptyUrl == [mime |-> "", w |-> 0, h |-> 0]
NoneUrl == [mime |-> "None", w |-> 0, h |-> 0]
DataUrl(w, h) == [mime |-> "image/png", w |-> w, h |-> h]
NoneImage == [src |-> "None", page |-> 0, ok |-> FALSE, w |-> 0, h |-> 0]

Max(a, b) == IF a >= b THEN a ELSE b
Min(a, b) == IF a <= b THEN a ELSE b

Raise(e) == [raised |-> TRUE, exc |-> e]
Return(v) == [raised |-> FALSE, value |-> v]

BoundingBox(ymin, xmin, ymax, xmax) ==
    [ymin |-> ymin, xmin |-> xmin, ymax |-> ymax, xmax |-> xmax]

QuestionSegment(id, bbox, text, subject, correctAnswer) ==
    [id |-> id, boundingBox |-> bbox, text |-> text, cropUrl |-> NoneUrl,
     imageUrl |-> NoneUrl, sourceImageUrl |-> NoneImage, subject |-> subject,
     chapter |-> None, correctAnswer |-> correctAnswer]

CroppedSegment(segment, crop_url) ==
    [id |-> segment.id, boundingBox |-> segment.boundingBox,
     text |-> segment.text, cropUrl |-> crop_url, subject |-> segment.subject,
     chapter |-> segment.chapter, correctAnswer |-> segment.correctAnswer]

-----------------------------------------------------------------------------
(* Crop engine: ImageService._crop_segment *)

Padding == 10
NormScale == 1000

\* int(): truncation toward zero
Trunc(n, d) == IF n >= 0 THEN n \div d ELSE -((-n) \div d)

\* int((v / 1000) * dim)
ScaleCoord(v, dim) == Trunc(v * dim, NormScale)

\* the rectangle after scaling, padding and clamping (lines 115-124)
CropRect(bbox, width, height) ==
    [x1 |-> Max(0, ScaleCoord(bbox.xmin, width) - Padding),
     y1 |-> Max(0, ScaleCoord(bbox.ymin, height) - Padding),
     x2 |-> Min(width, ScaleCoord(bbox.xmax, width) + Padding),
     y2 |-> Min(height, ScaleCoord(bbox.ymax, height) + Padding)]

\* Pillow: Image.new rejects a negative size (ValueError); whether an image
\* with a zero side can be written as PNG depends on the Pillow build, so
\* zero_ok ranges over both outcomes.
_crop_segment(bbox, width, height, zero_ok) ==
    LET r == CropRect(bbox, width, height)
        canvas_width == r.x2 - r.x1
        canvas_height == r.y2 - r.y1
    IN  IF canvas_width < 0 \/ canvas_height < 0
        THEN Raise("ValueError")
        ELSE IF (canvas_width = 0 \/ canvas_height = 0) /\ ~zero_ok
        THEN Raise("SystemError")
        ELSE Return(DataUrl(canvas_width, canvas_height))

\* a decoder that hands out an empty image instead of raising
_decode_image_lenient(base64_image) ==
    Return([w |-> base64_image.w, h |-> base64_image.h])

\* ImageService._decode_image: b64decode / Image.open raise on a payload
\* that is no image; the data URL prefix, when present, is dropped first.
_decode_image(base64_image) ==
    IF base64_image.ok
    THEN Return([w |-> base64_image.w, h |-> base64_image.h])
    ELSE Raise("UnidentifiedImageError")

-----------------------------------------------------------------------------
(* Segmentation client: GeminiService *)

\* dict.get(key, default) on a parsed JSON object; the object's keys are
\* listed in its field "keys"
Get(d, key, default) == IF key \in d.keys THEN d[key] ELSE default

EmptyObject == [keys |-> {}]
BBoxDefaultMin == 0
BBoxDefaultMax == 1000

\* the mapping with 0 as the default of every box field
MapQuestion_zero_defaults(q) ==
    LET bbox == Get(q, "boundingBox", EmptyObject)
    IN  QuestionSegment(
            Get(q, "id", ""),
            BoundingBox(Get(bbox, "ymin", BBoxDefaultMin),
                        Get(bbox, "xmin", BBoxDefaultMin),
                        Get(bbox, "ymax", BBoxDefaultMin),
                        Get(bbox, "xmax", BBoxDefaultMin)),
            Get(q, "text", ""),
            Get(q, "subject", None),
            Get(q, "correctAnswer", None))

\* lines 155-167: one parsed question to a QuestionSegment (the id the
\* model sends is a string, which str() returns as it is)
MapQuestion(q) ==
    LET bbox == Get(q, "boundingBox", EmptyObject)
    IN  QuestionSegment(
            Get(q, "id", ""),
            BoundingBox(Get(bbox, "ymin", BBoxDefaultMin),
                        Get(bbox, "xmin", BBoxDefaultMin),
                        Get(bbox, "ymax", BBoxDefaultMax),
                        Get(bbox, "xmax", BBoxDefaultMax)),
            Get(q, "text", ""),
            Get(q, "subject", None),
            Get(q, "correctAnswer", None))

\* GeminiService.analyze_image, given what the external model answered.
\*   api_error : generate_content raises, re-raised by line 177-179
\*   empty     : response.text is empty, ValueError of line 148
\*   malformed : json.loads raises JSONDecodeError, turned into ValueError
\*   non_object: the text parses to a list, result_data.get does not exist
\*   object    : a JSON object, with or without the key "questions"
GeminiService_analyze_image(reply) ==
    CASE reply.kind = "api_error" -> Raise("APIError")
      [] reply.kind = "empty" -> Raise("ValueError")
      [] reply.kind = "malformed" -> Raise("ValueError")
      [] reply.kind = "non_object" -> Raise("AttributeError")
      [] reply.kind = "object" ->
            LET qs == Get(reply.body, "questions", <<>>)
            IN  Return([questions |-> [k \in 1..Len(qs) |-> MapQuestion(qs[k])]])

\* GeminiService.__init__: the API key is required
GeminiService_init == IF api_key THEN Return("GeminiService") ELSE Raise("ValueError")

\* the accessors: construct on first use, then reuse
get_gemini_service ==
    IF _gemini_service = None THEN GeminiService_init ELSE Return(_gemini_service)
get_pdf_service == IF _pdf_service = None THEN "PDFService" ELSE _pdf_service
get_image_service == IF _image_service = None THEN "ImageService" ELSE _image_service

-----------------------------------------------------------------------------
(* Upload file names: sequences of characters *)

\* str.lower() on the characters used here
LowerChar(c) ==
    CASE c = "P" -> "p" [] c = "D" -> "d" [] c = "F" -> "f"
      [] c = "A" -> "a" [] OTHER -> c
Lower(s) == [k \in 1..Len(s) |-> LowerChar(s[k])]

\* str.endswith
EndsWith(s, suffix) ==
    /\ Len(s) >= Len(suffix)
    /\ \A k \in 1..Len(suffix) : s[Len(s) - Len(suffix) + k] = suffix[k]

DotPdf == << ".", "p", "d", "f" >>

\* line 70 without lower()
IsPdfName_case_sensitive(filename) == EndsWith(filename, DotPdf)

\* line 70: the upload's name passes the check
IsPdfName(filename) == EndsWith(Lower(filename), DotPdf)

-----------------------------------------------------------------------------
(* Inputs enumerated by the model *)

Filenames ==
    { << "a", ".", "p", "d", "f" >>, << "A", ".", "P", "D", "F" >>,
      << "n", ".", "t", "x", "t" >>, << "p", "d", "f" >>,
      << "a", ".", "p", "d", "f", ".", "t", "x", "t" >>, << "a", ".", "p", "d" >> }

BoxNormal == BoundingBox(100, 100, 500, 500)
BoxFull == BoundingBox(0, 0, 1000, 1000)
BoxLine == BoundingBox(400, 100, 400, 900)       \* ymin = ymax
BoxInverted == BoundingBox(100, 900, 500, 100)   \* xmax < xmin
BoxOutside == BoundingBox(0, 1100, 1000, 1500)   \* right of the image

\* request images: one that does not decode, and decodable ones
RequestImages ==
    { [src |-> "upload", page |-> 0, ok |-> FALSE, w |-> 0, h |-> 0],
      [src |-> "upload", page |-> 0, ok |-> TRUE, w |-> 100, h |-> 100],
      [src |-> "upload", page |-> 0, ok |-> TRUE, w |-> 40, h |-> 1] }

\* a page rendered by the page renderer (page_num is 0-based); Pillow
\* refuses to decode a rendering above its pixel limit (ok = FALSE)
PageImage(page_num, ok) ==
    [src |-> "page", page |-> page_num, ok |-> ok, w |-> 100, h |-> 100]

SeqsUpTo(S, n) == UNION { [1..k -> S] : k \in 0..n }

\* segments of a crop request
Segments ==
    { QuestionSegment("1", BoxNormal, "t1", "Physics", "A"),
      QuestionSegment("2", BoxInverted, "t2", None, None),
      QuestionSegment("2", BoxOutside, "t3", "Math", None),
      QuestionSegment("", BoxLine, "", None, "B") }
SegmentLists == SeqsUpTo(Segments, MaxSegments)

RawBox(b) == [keys |-> {"ymin", "xmin", "ymax", "xmax"}, ymin |-> b.ymin,
              xmin |-> b.xmin, ymax |-> b.ymax, xmax |-> b.xmax]
RawFull == [keys |-> {"id", "text", "subject", "correctAnswer", "boundingBox"},
            id |-> "1", text |-> "t1", subject |-> "Physics",
            correctAnswer |-> "A", boundingBox |-> RawBox(BoxNormal)]
RawInverted == [keys |-> {"id", "text", "boundingBox"}, id |-> "2",
                text |-> "t2", boundingBox |-> RawBox(BoxInverted)]
RawBare == [keys |-> {"text"}, text |-> "t3"]
RawPartialBox == [keys |-> {"id", "subject", "boundingBox"}, id |-> "4",
                  subject |-> "Math",
                  boundingBox |-> [keys |-> {"ymin", "xmax"}, ymin |-> 200,
                                   xmax |-> 600]]

\* questions the external model may report, for a single image and for a page
RawQuestions == { RawFull, RawInverted, RawBare, RawPartialBox }
PageQuestions == { RawFull, RawInverted }

ObjectReply(qs) ==
    [kind |-> "object", body |-> [keys |-> {"questions"}, questions |-> qs]]
FailureReplies ==
    { [kind |-> "api_error"], [kind |-> "empty"], [kind |-> "malformed"],
      [kind |-> "non_object"] }
ModelReplies ==
    FailureReplies \cup { [kind |-> "object", body |-> [keys |-> {}]] }
        \cup { ObjectReply(qs) : qs \in SeqsUpTo(RawQuestions, MaxSegments) }
PageReplies ==
    FailureReplies \cup { ObjectReply(qs) : qs \in SeqsUpTo(PageQuestions, MaxSegments) }

-----------------------------------------------------------------------------
(* Responses *)

NoValue == [kind |-> "none"]
HTTPException(status_code, detail) ==
    [kind |-> "HTTPException", status_code |-> status_code, detail |-> detail]
AnalyzeImageResponse(success, questions, error) ==
    [kind |-> "AnalyzeImageResponse", success |-> success,
     questions |-> questions, error |-> error]
CropImageResponse(success, segs, error) ==
    [kind |-> "CropImageResponse", success |-> success, segments |-> segs,
     error |-> error]
PDFAnalysisResponse(success, taskId, pages, allQuestions, pageResults, error) ==
    [kind |-> "PDFAnalysisResponse", success |-> success, taskId |-> taskId,
     pages |-> pages, allQuestions |-> allQuestions,
     pageResults |-> pageResults, error |-> error]
\* a service method called directly: what it returned or raised
Returned(v) == [kind |-> "return", value |-> v]
Raised(e) == [kind |-> "raise", exc |-> e]

\* an except clause that hands back what was collected before the failure
PdfFailure_partial(e) ==
    PDFAnalysisResponse(FALSE, "", Len(page_results), all_questions,
                        page_results, e)

\* analyze_pdf, lines 123-132: the except clause
PdfFailure(e) == PDFAnalysisResponse(FALSE, "", 0, <<>>, <<>>, e)

\* line 109 with the arguments swapped
Extend_prepend(all, questions) == questions \o all

\* line 109: all_questions.extend(result.questions)
Extend(all, questions) == all \o questions

NoImage == [w |-> 0, h |-> 0]
NoResult == [questions |-> <<>>]

-----------------------------------------------------------------------------
(* Initial state: a fresh process, no request received yet *)

Services == { "gemini", "pdf", "image" }
Tasks == 1..MaxTasks

\* a coroutine slot of the event loop without a request
IdleTask ==
    [status |-> "idle", handler |-> "none", calls |-> 0,
     got |-> [s \in Services |-> 0], saw |-> "unchecked"]

Init ==
    /\ api_key \in BOOLEAN
    /\ _gemini_service = None
    /\ _pdf_service = None
    /\ _image_service = None
    /\ op = "idle"
    /\ pc = "idle"
    /\ request = NoValue
    /\ response = NoValue
    /\ doc = "none"
    /\ total_pages = 0
    /\ images = << >>
    /\ page_images = << >>
    /\ all_questions = << >>
    /\ page_results = << >>
    /\ result = NoResult
    /\ img = NoImage
    /\ segments = << >>
    /\ cropped_segments = << >>
    /\ log = << >>
    /\ tasks = [t \in Tasks |-> IdleTask]

services == << _gemini_service, _pdf_service, _image_service >>
renderer == << doc, total_pages, images >>
pipeline == << page_images, all_questions, page_results >>
cropper == << img, segments, cropped_segments >>

-----------------------------------------------------------------------------
(* POST /api/analyze *)

analyze_image ==
    /\ op = "idle"
    /\ \E image \in RequestImages, reply \in ModelReplies :
          LET g == get_gemini_service
              r == IF g.raised THEN g ELSE GeminiService_analyze_image(reply)
          IN  /\ request' = [image |-> image, mimeType |-> "image/png"]
              /\ _gemini_service' = IF g.raised THEN _gemini_service ELSE g.value
              /\ log' = IF g.raised THEN << >>
                        ELSE << [ev |-> "model", page |-> 0, reply |-> reply] >>
              /\ response' =
                    IF ~r.raised
                    THEN AnalyzeImageResponse(TRUE, r.value.questions, None)
                    ELSE IF r.exc = "ValueError"
                    THEN HTTPException(400, r.exc)
                    ELSE AnalyzeImageResponse(FALSE, << >>, r.exc)
    /\ op' = "analyze_image"
    /\ pc' = "done"
    /\ UNCHANGED << api_key, tasks, _pdf_service, _image_service, renderer, pipeline,
                    result, cropper >>

-----------------------------------------------------------------------------
(* ImageService.extract_crops: the loop of lines 47-72 and its return *)

\* the attachment with the bound j < len(cropped) - 1
AttachCrops_short(questions, cropped, source) ==
    [j \in 1..Len(questions) |->
        IF j < Len(cropped)
        THEN [questions[j] EXCEPT !.cropUrl = cropped[j].cropUrl,
                                  !.sourceImageUrl =
                                      IF source = NoImage THEN @ ELSE source]
        ELSE questions[j]]

\* lines 102-106 and 184-186: copy the crop of the same list position into
\* each question, and the page reference when one is given
AttachCrops(questions, cropped, source) ==
    [j \in 1..Len(questions) |->
        IF j <= Len(cropped)
        THEN [questions[j] EXCEPT !.cropUrl = cropped[j].cropUrl,
                                  !.sourceImageUrl =
                                      IF source = NoImage THEN @ ELSE source]
        ELSE questions[j]]

\* extract_crops without the except clause of lines 61-72: a crop that
\* raises leaves extract_crops and reaches the caller's except clause
extract_crops_segment_abort ==
    /\ pc = "extract_crops"
    /\ Len(cropped_segments) < Len(segments)
    /\ LET segment == segments[Len(cropped_segments) + 1]
       IN  \E zero_ok \in BOOLEAN :
              LET c == _crop_segment(segment.boundingBox, img.w, img.h, zero_ok)
              IN  /\ log' = Append(log, [ev |-> "crop", page |-> Len(page_results),
                                         index |-> Len(cropped_segments) + 1,
                                         raised |-> c.raised,
                                         url |-> IF c.raised THEN EmptyUrl
                                                 ELSE c.value])
                  /\ IF c.raised
                     THEN /\ response' =
                                IF op = "crop_image"
                                THEN CropImageResponse(FALSE, << >>, c.exc)
                                ELSE IF op = "analyze_pdf" THEN PdfFailure(c.exc)
                                ELSE AnalyzeImageResponse(FALSE, << >>, c.exc)
                          /\ pc' = "done"
                          /\ UNCHANGED cropped_segments
                     ELSE /\ cropped_segments' =
                                Append(cropped_segments,
                                       CroppedSegment(segment, c.value))
                          /\ UNCHANGED << response, pc >>
    /\ UNCHANGED << api_key, tasks, services, op, request, renderer, pipeline, result,
                    img, segments >>

extract_crops_segment ==
    /\ pc = "extract_crops"
    /\ Len(cropped_segments) < Len(segments)
    /\ LET segment == segments[Len(cropped_segments) + 1]
       IN  \E zero_ok \in BOOLEAN :
              LET c == _crop_segment(segment.boundingBox, img.w, img.h, zero_ok)
                  crop_url == IF c.raised THEN EmptyUrl ELSE c.value
              IN  /\ cropped_segments' =
                        Append(cropped_segments, CroppedSegment(segment, crop_url))
                  /\ log' = Append(log, [ev |-> "crop", page |-> Len(page_results),
                                         index |-> Len(cropped_segments) + 1,
                                         raised |-> c.raised,
                                         url |-> crop_url])
    /\ UNCHANGED << api_key, tasks, services, op, pc, request, response, renderer,
                    pipeline, result, img, segments >>

\* a return placed inside the loop body: the list goes back to the caller
\* after the first segment
LoopExhausted_first(cropped, segs) == Len(cropped) >= Min(Len(segs), 1)

\* line 47: the for loop ends when every segment has been visited
LoopExhausted(cropped, segs) == Len(cropped) = Len(segs)

\* line 74, and the caller's continuation (analyze.py lines 102-109,
\* 150-154, 184-192)
extract_crops_return ==
    /\ pc = "extract_crops"
    /\ LoopExhausted(cropped_segments, segments)
    /\ CASE op = "crop_image" ->
              /\ response' = CropImageResponse(TRUE, cropped_segments, None)
              /\ pc' = "done"
              /\ UNCHANGED << pipeline, result >>
         [] op = "analyze_and_crop" ->
              /\ result' = [questions |->
                               AttachCrops(result.questions, cropped_segments, NoImage)]
              /\ response' = AnalyzeImageResponse(TRUE, result'.questions, None)
              /\ pc' = "done"
              /\ UNCHANGED pipeline
         [] op = "analyze_pdf" ->
              /\ result' = [questions |->
                               AttachCrops(result.questions, cropped_segments,
                                           page_images[Len(page_results) + 1])]
              /\ page_results' = Append(page_results, result')
              /\ all_questions' = Extend(all_questions, result'.questions)
              /\ pc' = "pages"
              /\ UNCHANGED << response, page_images >>
    /\ UNCHANGED << api_key, tasks, services, op, request, renderer, cropper, log >>

-----------------------------------------------------------------------------
(* POST /api/crop *)

crop_image ==
    /\ op = "idle"
    /\ \E image \in RequestImages, segs \in SegmentLists :
          LET d == _decode_image(image)
          IN  /\ request' = [image |-> image, segments |-> segs]
              /\ _image_service' = get_image_service
              /\ log' = << [ev |-> "decode", page |-> 0, ok |-> ~d.raised] >>
              /\ IF d.raised
                 THEN /\ response' = CropImageResponse(FALSE, << >>, d.exc)
                      /\ pc' = "done"
                      /\ UNCHANGED cropper
                 ELSE /\ img' = d.value
                      /\ segments' = segs
                      /\ cropped_segments' = << >>
                      /\ pc' = "extract_crops"
                      /\ UNCHANGED response
    /\ op' = "crop_image"
    /\ UNCHANGED << api_key, tasks, _gemini_service, _pdf_service, renderer, pipeline,
                    result >>

-----------------------------------------------------------------------------
(* POST /api/analyze-with-crop *)

analyze_and_crop ==
    /\ op = "idle"
    /\ \E image \in RequestImages, reply \in ModelReplies :
          LET g == get_gemini_service
              r == IF g.raised THEN g ELSE GeminiService_analyze_image(reply)
              crop == ~r.raised /\ r.value.questions # << >>
              d == _decode_image(image)
          IN  /\ request' = [image |-> image, mimeType |-> "image/png"]
              /\ _gemini_service' = IF g.raised THEN _gemini_service ELSE g.value
              /\ _image_service' = IF g.raised THEN _image_service
                                   ELSE get_image_service
              /\ log' = IF g.raised THEN << >>
                        ELSE IF ~crop
                        THEN << [ev |-> "model", page |-> 0, reply |-> reply] >>
                        ELSE << [ev |-> "model", page |-> 0, reply |-> reply],
                                [ev |-> "decode", page |-> 0, ok |-> ~d.raised] >>
              /\ result' = IF r.raised THEN NoResult ELSE r.value
              /\ IF r.raised
                 THEN /\ response' = AnalyzeImageResponse(FALSE, << >>, r.exc)
                      /\ pc' = "done"
                      /\ UNCHANGED cropper
                 ELSE IF ~crop
                 THEN /\ response' = AnalyzeImageResponse(TRUE, r.value.questions, None)
                      /\ pc' = "done"
                      /\ UNCHANGED cropper
                 ELSE IF d.raised
                 THEN /\ response' = AnalyzeImageResponse(FALSE, << >>, d.exc)
                      /\ pc' = "done"
                      /\ UNCHANGED cropper
                 ELSE /\ img' = d.value
                      /\ segments' = r.value.questions
                      /\ cropped_segments' = << >>
                      /\ pc' = "extract_crops"
                      /\ UNCHANGED response
    /\ op' = "analyze_and_crop"
    /\ UNCHANGED << api_key, tasks, _pdf_service, renderer, pipeline >>

-----------------------------------------------------------------------------
(* PDFService.pdf_to_images, called by analyze_pdf or directly *)

HasProgress == op = "pdf_to_images" /\ request.on_progress

\* an exception leaving pdf_to_images reaches analyze_pdf's except clause,
\* or the direct caller
pdf_to_images_raise(e) ==
    /\ response' = IF op = "analyze_pdf" THEN PdfFailure(e) ELSE Raised(e)
    /\ pc' = "done"

\* lines 41-45: fitz.open and len(doc), both before the try block
pdf_to_images_open ==
    /\ pc = "pdf_to_images"
    /\ \E outcome \in {"ok", "open_fails", "len_fails"} :
          /\ log' = Append(log, [ev |-> "open", outcome |-> outcome])
          /\ CASE outcome = "open_fails" ->
                    /\ pdf_to_images_raise("FileDataError")
                    /\ UNCHANGED renderer
               [] outcome = "len_fails" ->
                    /\ doc' = "open"
                    /\ pdf_to_images_raise("RuntimeError")
                    /\ UNCHANGED << total_pages, images >>
               [] outcome = "ok" ->
                    /\ doc' = "open"
                    /\ total_pages' = request.pages
                    /\ images' = << >>
                    /\ pc' = "render"
                    /\ UNCHANGED response
    /\ UNCHANGED << api_key, tasks, services, op, request, pipeline, result, cropper >>

\* the callback called with the 0-based page number
report_progress_zero_based(page_num, total, ok) ==
    [ev |-> "progress", current |-> page_num, total |-> total, ok |-> ok]

\* lines 67-68: on_progress(page_num + 1, total_pages); ok = it did not raise
report_progress(page_num, total, ok) ==
    [ev |-> "progress", current |-> page_num + 1, total |-> total, ok |-> ok]

\* lines 48-70: one iteration of the loop; the finally clause closes the
\* document when the rendering or the progress callback raises
pdf_to_images_page ==
    /\ pc = "render"
    /\ Len(images) < total_pages
    /\ LET page_num == Len(images)
       IN  \E render_ok \in BOOLEAN, progress_ok \in BOOLEAN, decodes \in BOOLEAN :
              IF ~render_ok
              THEN /\ progress_ok /\ decodes
                   /\ log' = Append(log, [ev |-> "render", page |-> page_num,
                                          ok |-> FALSE])
                   /\ doc' = "closed"
                   /\ pdf_to_images_raise("RuntimeError")
                   /\ UNCHANGED << total_pages, images >>
              ELSE /\ images' = Append(images, PageImage(page_num, decodes))
                   /\ UNCHANGED total_pages
                   /\ IF ~HasProgress
                      THEN /\ progress_ok
                           /\ log' = Append(log, [ev |-> "render", page |-> page_num,
                                                  ok |-> TRUE])
                           /\ UNCHANGED << doc, response, pc >>
                      ELSE /\ log' = log \o
                                << [ev |-> "render", page |-> page_num, ok |-> TRUE],
                                   report_progress(page_num, total_pages, progress_ok) >>
                           /\ IF progress_ok
                              THEN UNCHANGED << doc, response, pc >>
                              ELSE /\ doc' = "closed"
                                   /\ pdf_to_images_raise("CallbackError")
    /\ UNCHANGED << api_key, tasks, services, op, request, pipeline, result, cropper >>

\* a renderer that hands its list over as soon as one page is in it
AllRendered_first(imgs, total) == Len(imgs) >= Min(total, 1)

\* line 48: range(total_pages) is exhausted
AllRendered(imgs, total) == Len(imgs) = total

\* lines 72-75: the loop is over, the finally clause closes the document
pdf_to_images_return ==
    /\ pc = "render"
    /\ AllRendered(images, total_pages)
    /\ doc' = "closed"
    /\ IF op = "analyze_pdf"
       THEN /\ page_images' = images
            /\ all_questions' = << >>
            /\ page_results' = << >>
            /\ pc' = "pages"
            /\ UNCHANGED response
       ELSE /\ response' = Returned(images)
            /\ pc' = "done"
            /\ UNCHANGED pipeline
    /\ UNCHANGED << api_key, tasks, services, op, request, total_pages, images, result,
                    cropper, log >>

\* a direct call, with or without a progress callback
pdf_to_images ==
    /\ op = "idle"
    /\ \E n \in 0..MaxPages, on_progress \in BOOLEAN :
          request' = [pages |-> n, on_progress |-> on_progress]
    /\ op' = "pdf_to_images"
    /\ pc' = "pdf_to_images"
    /\ UNCHANGED << api_key, tasks, services, response, renderer, pipeline, result,
                    cropper, log >>

\* lines 77-82: open, count, close
get_page_count ==
    /\ op = "idle"
    /\ \E n \in 0..MaxPages, outcome \in {"ok", "open_fails", "len_fails"} :
          /\ request' = [pages |-> n]
          /\ log' = << [ev |-> "open", outcome |-> outcome] >>
          /\ CASE outcome = "open_fails" ->
                    /\ response' = Raised("FileDataError")
                    /\ UNCHANGED doc
               [] outcome = "len_fails" ->
                    /\ response' = Raised("RuntimeError")
                    /\ doc' = "open"
               [] outcome = "ok" ->
                    /\ response' = Returned(n)
                    /\ doc' = "closed"
    /\ op' = "get_page_count"
    /\ pc' = "done"
    /\ UNCHANGED << api_key, tasks, services, total_pages, images, pipeline, result,
                    cropper >>

\* lines 95-110: open, then everything else inside try/finally
pdf_to_single_image ==
    /\ op = "idle"
    /\ \E n \in 0..MaxPages, page_num \in 0..MaxPages,
          outcome \in {"ok", "open_fails", "len_fails", "render_fails"} :
          /\ request' = [pages |-> n, page_num |-> page_num]
          /\ log' = << [ev |-> "open", outcome |-> outcome] >>
          /\ CASE outcome = "open_fails" ->
                    /\ response' = Raised("FileDataError")
                    /\ UNCHANGED doc
               [] outcome = "len_fails" ->
                    /\ response' = Raised("RuntimeError")
                    /\ doc' = "closed"
               [] outcome \in {"ok", "render_fails"} ->
                    /\ response' =
                          IF page_num >= n THEN Raised("ValueError")
                          ELSE IF outcome = "render_fails" THEN Raised("RuntimeError")
                          ELSE Returned(PageImage(page_num, TRUE))
                    /\ doc' = "closed"
    /\ op' = "pdf_to_single_image"
    /\ pc' = "done"
    /\ UNCHANGED << api_key, tasks, services, total_pages, images, pipeline, result,
                    cropper >>

-----------------------------------------------------------------------------
(* POST /api/analyze-pdf *)

\* lines 68-84: the file name check, the read, the services, and the call
\* of pdf_to_images
analyze_pdf ==
    /\ op = "idle"
    /\ \E filename \in Filenames, n \in 0..MaxPages, read_ok \in BOOLEAN :
          LET g == get_gemini_service
          IN  /\ request' = [filename |-> filename, pages |-> n]
              /\ IF ~IsPdfName(filename)
                 THEN /\ read_ok
                      /\ response' = HTTPException(400, "File must be a PDF")
                      /\ pc' = "done"
                      /\ UNCHANGED << services, log >>
                 ELSE IF ~read_ok
                 THEN /\ response' = PdfFailure("IOError")
                      /\ pc' = "done"
                      /\ log' = << [ev |-> "read", ok |-> FALSE] >>
                      /\ UNCHANGED services
                 ELSE /\ log' = << [ev |-> "read", ok |-> TRUE] >>
                      /\ _pdf_service' = get_pdf_service
                      /\ IF g.raised
                         THEN /\ response' = PdfFailure(g.exc)
                              /\ pc' = "done"
                              /\ UNCHANGED << _gemini_service, _image_service >>
                         ELSE /\ _gemini_service' = g.value
                              /\ _image_service' = get_image_service
                              /\ pc' = "pdf_to_images"
                              /\ UNCHANGED response
    /\ op' = "analyze_pdf"
    /\ UNCHANGED << api_key, tasks, renderer, pipeline, result, cropper >>

\* lines 91-109: page i is segmented; with questions, extract_crops is
\* entered (lines 41-45), without, the page's result is recorded
analyze_pdf_page ==
    /\ op = "analyze_pdf"
    /\ pc = "pages"
    /\ Len(page_results) < Len(page_images)
    /\ LET i == Len(page_results)
           page_image == page_images[i + 1]
       IN  \E reply \in PageReplies :
              LET r == GeminiService_analyze_image(reply)
                  d == _decode_image(page_image)
              IN  /\ log' = IF r.raised \/ r.value.questions = << >>
                            THEN Append(log, [ev |-> "model", page |-> i,
                                              reply |-> reply])
                            ELSE log \o << [ev |-> "model", page |-> i,
                                            reply |-> reply],
                                           [ev |-> "decode", page |-> i,
                                            ok |-> ~d.raised] >>
                  /\ IF r.raised
                     THEN /\ response' = PdfFailure(r.exc)
                          /\ pc' = "done"
                          /\ UNCHANGED << pipeline, result, cropper >>
                     ELSE IF r.value.questions = << >>
                     THEN /\ result' = r.value
                          /\ page_results' = Append(page_results, r.value)
                          /\ all_questions' = Extend(all_questions, r.value.questions)
                          /\ UNCHANGED << response, pc, page_images, cropper >>
                     ELSE IF d.raised
                     THEN /\ response' = PdfFailure(d.exc)
                          /\ pc' = "done"
                          /\ UNCHANGED << pipeline, result, cropper >>
                     ELSE /\ result' = r.value
                          /\ img' = d.value
                          /\ segments' = r.value.questions
                          /\ cropped_segments' = << >>
                          /\ pc' = "extract_crops"
                          /\ UNCHANGED << response, pipeline >>
    /\ UNCHANGED << api_key, tasks, services, op, request, renderer >>

\* lines 111-121: every page is done
analyze_pdf_respond ==
    /\ op = "analyze_pdf"
    /\ pc = "pages"
    /\ Len(page_results) = Len(page_images)
    /\ response' = PDFAnalysisResponse(TRUE, "pdf_time", Len(page_images),
                                       all_questions, page_results, None)
    /\ pc' = "done"
    /\ UNCHANGED << api_key, tasks, services, op, request, renderer, pipeline, result,
                    cropper, log >>

-----------------------------------------------------------------------------
(* ImageService.extract_single_crop *)

CropBoxes == { BoxNormal, BoxFull, BoxLine, BoxInverted, BoxOutside }

extract_single_crop ==
    /\ op = "idle"
    /\ \E image \in RequestImages, bounding_box \in CropBoxes :
          request' = [image |-> image, bounding_box |-> bounding_box]
    /\ op' = "extract_single_crop"
    /\ pc' = "extract_single_crop"
    /\ UNCHANGED << api_key, tasks, services, response, renderer, pipeline, result,
                    cropper, log >>

\* lines 91-93
extract_single_crop_body ==
    /\ pc = "extract_single_crop"
    /\ \E zero_ok \in BOOLEAN :
          LET d == _decode_image(request.image)
              c == IF d.raised THEN d
                   ELSE _crop_segment(request.bounding_box, d.value.w, d.value.h,
                                      zero_ok)
          IN  /\ response' = IF c.raised THEN Raised(c.exc) ELSE Returned(c.value)
              /\ img' = IF d.raised THEN img ELSE d.value
    /\ pc' = "done"
    /\ UNCHANGED << api_key, tasks, services, op, request, renderer, pipeline, result,
                    segments, cropped_segments, log >>

-----------------------------------------------------------------------------
(* The backend: one request, handled to its response *)

Next ==
    \/ analyze_image
    \/ analyze_and_crop
    \/ crop_image
    \/ extract_crops_segment
    \/ extract_crops_return
    \/ analyze_pdf
    \/ pdf_to_images_open
    \/ pdf_to_images_page
    \/ pdf_to_images_return
    \/ analyze_pdf_page
    \/ analyze_pdf_respond
    \/ pdf_to_images
    \/ get_page_count
    \/ pdf_to_single_image
    \/ extract_single_crop
    \/ extract_single_crop_body

Spec == Init /\ [][Next]_vars

-----------------------------------------------------------------------------
(* The crop engine on its own: every box over CropValues, every image size *)

CropValues == { -500, -100, 0, 500, 1000, 1100, 1500 }
CropSizes == { 1, 40, 100 }
AllBoxes == { BoundingBox(a, b, c, d) : a \in CropValues, b \in CropValues,
                                         c \in CropValues, d \in CropValues }

InitCrop ==
    /\ api_key = TRUE
    /\ _gemini_service = None
    /\ _pdf_service = None
    /\ _image_service = None
    /\ op = "extract_single_crop"
    /\ pc = "extract_single_crop"
    /\ \E w \in CropSizes, h \in CropSizes, b \in AllBoxes :
          request = [image |-> [src |-> "upload", page |-> 0, ok |-> TRUE,
                                w |-> w, h |-> h],
                     bounding_box |-> b]
    /\ response = NoValue
    /\ doc = "none"
    /\ total_pages = 0
    /\ images = << >>
    /\ page_images = << >>
    /\ all_questions = << >>
    /\ page_results = << >>
    /\ result = NoResult
    /\ img = NoImage
    /\ segments = << >>
    /\ cropped_segments = << >>
    /\ log = << >>
    /\ tasks = [t \in Tasks |-> IdleTask]

NextCrop == extract_single_crop_body

SpecCrop == InitCrop /\ [][NextCrop]_vars

-----------------------------------------------------------------------------
(* The service accessors under concurrent requests.  Every handler is an   *)
(* `async def` run by one event loop: a coroutine runs until its next      *)
(* await.  The accessors are plain functions without an await, so a call   *)
(* is one step; the steps of different requests interleave freely.         *)

Handlers == { "analyze_image", "analyze_pdf", "crop_image", "analyze_and_crop" }

\* the accessor calls of each handler, in call order
Accessors(handler) ==
    CASE handler = "analyze_image" -> << "gemini" >>
      [] handler = "analyze_pdf" -> << "pdf", "gemini", "image" >>
      [] handler = "crop_image" -> << "image" >>
      [] handler = "analyze_and_crop" -> << "gemini", "image" >>

\* the module global behind an accessor
ServiceHandle(s) ==
    CASE s = "gemini" -> _gemini_service
      [] s = "pdf" -> _pdf_service
      [] s = "image" -> _image_service

\* a call of the accessor of service s: what it returns or raises
Accessor(s) ==
    CASE s = "gemini" -> get_gemini_service
      [] s = "pdf" -> Return(get_pdf_service)
      [] s = "image" -> Return(get_image_service)

\* the constructor of service s, called whatever the global holds
Construct(s) ==
    CASE s = "gemini" -> GeminiService_init
      [] s = "pdf" -> Return("PDFService")
      [] s = "image" -> Return("ImageService")

\* the assignment `_x_service = handle`
Publish(s, handle) ==
    /\ _gemini_service' = IF s = "gemini" THEN handle ELSE _gemini_service
    /\ _pdf_service' = IF s = "pdf" THEN handle ELSE _pdf_service
    /\ _image_service' = IF s = "image" THEN handle ELSE _image_service

\* instances of service s constructed so far; the k-th one is instance k
Instances(s) ==
    Len(SelectSeq(log, LAMBDA e : e.ev = "accessor" /\ e.service = s /\ e.built))

\* a request arrives and its handler coroutine is started
request_arrives(t) ==
    /\ tasks[t].status = "idle"
    /\ \E handler \in Handlers :
          tasks' = [tasks EXCEPT ![t] = [IdleTask EXCEPT !.status = "running",
                                                         !.handler = handler]]
    /\ UNCHANGED << api_key, services, op, pc, request, response, renderer,
                    pipeline, result, cropper, log >>

\* an accessor with a suspension between `if _x is None` and the
\* assignment: the first step looks at the global, the second acts on what
\* the first saw
service_accessor_racy(t) ==
    /\ tasks[t].status = "running"
    /\ tasks[t].calls < Len(Accessors(tasks[t].handler))
    /\ LET s == Accessors(tasks[t].handler)[tasks[t].calls + 1]
       IN  IF tasks[t].saw = "unchecked"
           THEN /\ tasks' = [tasks EXCEPT ![t].saw =
                                IF ServiceHandle(s) = None THEN "none" ELSE "set"]
                /\ UNCHANGED << services, log >>
           ELSE LET r == IF tasks[t].saw = "none" THEN Construct(s)
                         ELSE Return(ServiceHandle(s))
                    built == tasks[t].saw = "none" /\ ~r.raised
                    instance == Instances(s) + IF built THEN 1 ELSE 0
                IN  /\ log' = Append(log, [ev |-> "accessor", service |-> s,
                                           task |-> t, raised |-> r.raised,
                                           built |-> built,
                                           instance |-> IF r.raised THEN 0
                                                        ELSE instance])
                    /\ Publish(s, IF r.raised THEN ServiceHandle(s) ELSE r.value)
                    /\ tasks' = IF r.raised
                                THEN [tasks EXCEPT ![t].status = "done"]
                                ELSE [tasks EXCEPT ![t].calls = @ + 1,
                                                   ![t].got[s] = instance,
                                                   ![t].saw = "unchecked"]
    /\ UNCHANGED << api_key, op, pc, request, response, renderer, pipeline,
                    result, cropper >>

\* gemini.py lines 199-204, pdf.py lines 117-122, image.py lines 166-171:
\* the next accessor call of the handler of task t, in one step.  An
\* instance is constructed when the global is None; a constructor that
\* raises (GeminiService without API key) leaves the global as it is and
\* ends the handler in its except clause.
service_accessor(t) ==
    /\ tasks[t].status = "running"
    /\ tasks[t].calls < Len(Accessors(tasks[t].handler))
    /\ LET s == Accessors(tasks[t].handler)[tasks[t].calls + 1]
           r == Accessor(s)
           built == ServiceHandle(s) = None /\ ~r.raised
           instance == Instances(s) + IF built THEN 1 ELSE 0
       IN  /\ log' = Append(log, [ev |-> "accessor", service |-> s, task |-> t,
                                  raised |-> r.raised, built |-> built,
                                  instance |-> IF r.raised THEN 0 ELSE instance])
           /\ Publish(s, IF r.raised THEN ServiceHandle(s) ELSE r.value)
           /\ tasks' = IF r.raised
                       THEN [tasks EXCEPT ![t].status = "done"]
                       ELSE [tasks EXCEPT ![t].calls = @ + 1,
                                          ![t].got[s] = instance]
    /\ UNCHANGED << api_key, op, pc, request, response, renderer, pipeline,
                    result, cropper >>

\* the handler holds its services; the rest of its work (awaits included)
\* calls no accessor
handler_returns(t) ==
    /\ tasks[t].status = "running"
    /\ tasks[t].calls = Len(Accessors(tasks[t].handler))
    /\ tasks' = [tasks EXCEPT ![t].status = "done"]
    /\ UNCHANGED << api_key, services, op, pc, request, response, renderer,
                    pipeline, result, cropper, log >>

NextServices ==
    \E t \in Tasks :
       \/ request_arrives(t)
       \/ service_accessor(t)
       \/ handler_returns(t)

SpecServices == Init /\ [][NextServices]_vars

-----------------------------------------------------------------------------
(* Properties *)

Done == pc = "done"
Events(kind) == SelectSeq(log, LAMBDA e : e.ev = kind)

\* output `out` carries the id, boundingBox and text of input `segment`
Carries(out, segment) ==
    /\ out.id = segment.id
    /\ out.boundingBox = segment.boundingBox
    /\ out.text = segment.text

\* C1: once the source image has decoded, extract_crops returns one
\* CroppedSegment per input segment, in input order, the i-th carrying the
\* i-th input's id, boundingBox and text; a crop that raised makes exactly
\* its own output carry the empty cropUrl, every other output carries a PNG
\* data URL, and the batch (POST /api/crop) still answers success.
C1_ExtractCropsKeepsEverySegment ==
    /\ pc = "extract_crops" =>
          /\ Len(cropped_segments) <= Len(segments)
          /\ Len(Events("crop")) >= Len(cropped_segments)
          /\ \A k \in 1..Len(cropped_segments) :
                Carries(cropped_segments[k], segments[k])
    /\ (op = "crop_image" /\ Done /\ request.image.ok) =>
          /\ response.kind = "CropImageResponse"
          /\ response.success
          /\ Len(response.segments) = Len(request.segments)
          /\ Len(Events("crop")) = Len(request.segments)
          /\ \A k \in 1..Len(request.segments) :
                /\ Carries(response.segments[k], request.segments[k])
                /\ Events("crop")[k].index = k
                /\ Events("crop")[k].raised <=>
                      response.segments[k].cropUrl = EmptyUrl
                /\ ~Events("crop")[k].raised <=>
                      response.segments[k].cropUrl.mime = "image/png"

\* C1 witness: a batch of two whose first crop raised and whose second did not
C1_Witness ==
    /\ op = "crop_image" /\ Done /\ request.image.ok
    /\ Len(request.segments) = 2
    /\ request.segments[1] # request.segments[2]
    /\ Events("crop")[1].raised /\ ~Events("crop")[2].raised
    /\ response.success
    /\ response.segments[1].cropUrl = EmptyUrl
    /\ response.segments[2].cropUrl.mime = "image/png"

\* C2: when the external model answers with an empty or unparseable body,
\* POST /api/analyze and POST /api/analyze-with-crop answer with a normal
\* payload, success = false, no questions and an error text; never with an
\* HTTP error.
C2_UnparseableReplyIsBusinessFailure ==
    (/\ op \in { "analyze_image", "analyze_and_crop" }
     /\ Done
     /\ Len(Events("model")) = 1
     /\ Events("model")[1].reply.kind \in { "empty", "malformed", "non_object" })
    => /\ response.kind = "AnalyzeImageResponse"
       /\ ~response.success
       /\ response.questions = << >>
       /\ response.error # None

\* the file name ends in ".pdf" in some letter case
HasPdfSuffix(f) ==
    /\ Len(f) >= 4
    /\ f[Len(f) - 3] = "."
    /\ f[Len(f) - 2] \in { "p", "P" }
    /\ f[Len(f) - 1] \in { "d", "D" }
    /\ f[Len(f)] \in { "f", "F" }

\* some step of the document pipeline failed
PdfStepFailed ==
    \/ \E k \in 1..Len(log) :
          \/ log[k].ev \in { "read", "render", "decode" } /\ ~log[k].ok
          \/ log[k].ev = "open" /\ log[k].outcome # "ok"
          \/ log[k].ev = "model" /\ log[k].reply.kind # "object"
    \/ Events("read") # << >> /\ ~api_key

\* C3: in POST /api/analyze-pdf, once the file name check has passed, the
\* handler always answers with a PDFAnalysisResponse (nothing escapes it),
\* and when a step failed (the read, a service, the rendering, the
\* segmentation or the cropping of a page) the answer is success = false,
\* taskId = "", pages = 0, no questions, no page results and an error text.
C3_PdfFailureIsOneEmptyResponse ==
    (op = "analyze_pdf" /\ Done /\ HasPdfSuffix(request.filename)) =>
       /\ response.kind = "PDFAnalysisResponse"
       /\ response.success <=> ~PdfStepFailed
       /\ PdfStepFailed =>
             /\ response.taskId = ""
             /\ response.pages = 0
             /\ response.allQuestions = << >>
             /\ response.pageResults = << >>
             /\ response.error # None

\* C3 witness: the second page fails after the first page gave questions
\* that were cropped
C3_Witness ==
    /\ op = "analyze_pdf" /\ Done
    /\ Len(Events("model")) = 2
    /\ Events("model")[2].reply.kind = "empty"
    /\ Events("crop") # << >>
    /\ page_results # << >>
    /\ all_questions # << >>
    /\ ~response.success
    /\ response.pageResults = << >>

RECURSIVE Flatten(_)
Flatten(results) ==
    IF results = << >> THEN << >>
    ELSE results[1].questions \o Flatten(Tail(results))

RECURSIVE SumLen(_)
SumLen(results) ==
    IF results = << >> THEN 0
    ELSE Len(results[1].questions) + SumLen(Tail(results))

\* C4: a successful POST /api/analyze-pdf on N pages answers pages = N and
\* N page results, the i-th holding the questions the model reported for
\* page i; allQuestions is the page results' question lists concatenated in
\* page order, so its length is the sum of the per-page counts.
C4_PdfSuccessAggregatesPages ==
    (op = "analyze_pdf" /\ Done /\ response.kind = "PDFAnalysisResponse"
        /\ response.success) =>
       /\ response.pages = request.pages
       /\ Len(response.pageResults) = request.pages
       /\ Len(Events("model")) = request.pages
       /\ \A k \in 1..request.pages :
             LET e == Events("model")[k]
                 reported == GeminiService_analyze_image(e.reply).value.questions
                 entry == response.pageResults[k].questions
             IN  /\ e.page = k - 1
                 /\ Len(entry) = Len(reported)
                 /\ \A j \in 1..Len(entry) : Carries(entry[j], reported[j])
       /\ response.allQuestions = Flatten(response.pageResults)
       /\ Len(response.allQuestions) = SumLen(response.pageResults)

\* C4 witness: two pages, the first with one question, the second with two
\* others
C4_Witness ==
    /\ op = "analyze_pdf" /\ Done /\ response.kind = "PDFAnalysisResponse"
    /\ response.success
    /\ response.pages = 2
    /\ Len(response.pageResults[1].questions) = 1
    /\ Len(response.pageResults[2].questions) = 2
    /\ response.pageResults[1].questions[1].id
          # response.pageResults[2].questions[1].id
    /\ Len(response.allQuestions) = 3

\* C5: POST /api/analyze-pdf with a file name that does not end in ".pdf"
\* (in any letter case) answers HTTP 400 "File must be a PDF" before the
\* upload is read, a service obtained, a page rendered, the model called
\* or a crop made; a name ending in ".pdf" in any letter case is not
\* rejected.
C5_NonPdfNameRejectedFirst ==
    op = "analyze_pdf" =>
       /\ ~HasPdfSuffix(request.filename) =>
             /\ Done
             /\ response = HTTPException(400, "File must be a PDF")
             /\ log = << >>
             /\ doc = "none"
             /\ services = << None, None, None >>
       /\ HasPdfSuffix(request.filename) => response.kind # "HTTPException"

\* C5 witness: a name that contains ".pdf" without ending in it is rejected
C5_Witness ==
    /\ op = "analyze_pdf" /\ Done
    /\ request.filename = << "a", ".", "p", "d", "f", ".", "t", "x", "t" >>
    /\ response.kind = "HTTPException"
    /\ response.status_code = 400

\* the image size and the padded, clamped rectangle of a single crop call
CallWidth == request.image.w
CallHeight == request.image.h
CallRect == CropRect(request.bounding_box, CallWidth, CallHeight)

\* C6: for every bounding box and every image size W, H > 0 the rectangle
\* obtained after scaling, padding and clamping lies inside the image:
\* 0 <= x1 <= W, 0 <= x2 <= W, 0 <= y1 <= H, 0 <= y2 <= H.
C6_CropRectInsideImage ==
    (op = "extract_single_crop" /\ Done /\ request.image.ok) =>
       /\ 0 <= CallRect.x1 /\ CallRect.x1 <= CallWidth
       /\ 0 <= CallRect.x2 /\ CallRect.x2 <= CallWidth
       /\ 0 <= CallRect.y1 /\ CallRect.y1 <= CallHeight
       /\ 0 <= CallRect.y2 /\ CallRect.y2 <= CallHeight

\* C7: for every box with ymin <= ymax and xmin <= xmax and every image
\* size W, H > 0 the crop engine returns an artifact of width
\* min(W, x2 + pad) - max(0, x1 - pad) and height
\* min(H, y2 + pad) - max(0, y1 - pad), both non-negative, where x1, y1,
\* x2, y2 are the truncated scaled coordinates.
C7_OrderedBoxGivesArtifactOfClampedSize ==
    (/\ op = "extract_single_crop" /\ Done /\ request.image.ok
     /\ request.bounding_box.ymin <= request.bounding_box.ymax
     /\ request.bounding_box.xmin <= request.bounding_box.xmax) =>
       LET x1 == ScaleCoord(request.bounding_box.xmin, CallWidth)
           y1 == ScaleCoord(request.bounding_box.ymin, CallHeight)
           x2 == ScaleCoord(request.bounding_box.xmax, CallWidth)
           y2 == ScaleCoord(request.bounding_box.ymax, CallHeight)
           width == Min(CallWidth, x2 + Padding) - Max(0, x1 - Padding)
           height == Min(CallHeight, y2 + Padding) - Max(0, y1 - Padding)
       IN  /\ width >= 0
           /\ height >= 0
           /\ response = Returned(DataUrl(width, height))

\* C8: when the box, after padding and clamping, is inverted (x2 < x1 or
\* y2 < y1) or has zero area, the crop engine does not raise: it returns a
\* data URL describing an empty region.
C8_DegenerateBoxGivesArtifact ==
    (/\ op = "extract_single_crop" /\ Done /\ request.image.ok
     /\ \/ CallRect.x2 <= CallRect.x1
        \/ CallRect.y2 <= CallRect.y1) =>
       /\ response.kind = "return"
       /\ response.value.mime = "image/png"

\* C9: when the source image of a crop batch does not decode, extract_crops
\* raises before any segment is processed and returns no list, and
\* POST /api/crop answers success = false with no segments and an error
\* text.
C9_UndecodableImageFailsBatch ==
    (op = "crop_image" /\ ~request.image.ok) =>
       /\ Done
       /\ Events("crop") = << >>
       /\ cropped_segments = << >>
       /\ response.kind = "CropImageResponse"
       /\ ~response.success
       /\ response.segments = << >>
       /\ response.error # None

\* C9 witness: a batch of two segments on an image that does not decode
C9_Witness ==
    /\ op = "crop_image" /\ Done
    /\ ~request.image.ok
    /\ Len(request.segments) = 2
    /\ ~response.success

\* C10: every page renderer operation that opened the document has closed
\* it when the operation ends, however it ends.
C10_DocumentClosedOnEveryExit ==
    (op \in { "pdf_to_images", "pdf_to_single_image", "get_page_count" } /\ Done)
       => doc # "open"

\* C11: pdf_to_images on a document of N pages returns N images, the i-th
\* rendered from page i; with a progress callback it is called N times,
\* with (1,N), (2,N), ..., (N,N) in this order, the k-th call right after
\* page k was rendered and appended and before page k+1 is rendered;
\* without a callback nothing is called.
C11_PagesInOrderProgressAfterEachPage ==
    /\ \A k \in 1..Len(images) : images[k].src = "page" /\ images[k].page = k - 1
    /\ op = "pdf_to_images" =>
          /\ Len(Events("progress")) <= Len(images)
          /\ ~request.on_progress => Events("progress") = << >>
          /\ \A k \in 1..Len(Events("progress")) :
                /\ Events("progress")[k].current = k
                /\ Events("progress")[k].total = request.pages
          /\ \A p \in 1..Len(log) :
                log[p].ev = "progress" =>
                   /\ p > 1
                   /\ log[p - 1] = [ev |-> "render", page |-> log[p].current - 1,
                                    ok |-> TRUE]
                   /\ Len(images) >= log[p].current
    /\ (op = "pdf_to_images" /\ Done /\ response.kind = "return") =>
          /\ Len(response.value) = request.pages
          /\ \A k \in 1..request.pages : response.value[k].page = k - 1
          /\ request.on_progress =>
                /\ Len(Events("progress")) = request.pages
                /\ \A k \in 1..request.pages :
                      /\ log[2 * k].ev = "render" /\ log[2 * k].page = k - 1
                      /\ log[2 * k + 1].ev = "progress"
                      /\ log[2 * k + 1].current = k

\* C11 witness: two pages rendered with a callback, which was called twice
C11_Witness ==
    /\ op = "pdf_to_images" /\ Done /\ response.kind = "return"
    /\ request.on_progress
    /\ request.pages = 2
    /\ Len(response.value) = 2
    /\ Len(Events("progress")) = 2
    /\ Events("progress")[2].current = 2

\* question q is raw question `raw` with every absent field defaulted
DefaultsApplied(raw, q) ==
    /\ q.id = IF "id" \in raw.keys THEN raw.id ELSE ""
    /\ q.text = IF "text" \in raw.keys THEN raw.text ELSE ""
    /\ q.subject = IF "subject" \in raw.keys THEN raw.subject ELSE "None"
    /\ q.correctAnswer =
          IF "correctAnswer" \in raw.keys THEN raw.correctAnswer ELSE "None"
    /\ \A f \in { "ymin", "xmin", "ymax", "xmax" } :
          q.boundingBox[f] =
             IF "boundingBox" \in raw.keys /\ f \in raw.boundingBox.keys
             THEN raw.boundingBox[f]
             ELSE IF f \in { "ymin", "xmin" } THEN 0 ELSE 1000

\* C12: when the model's response parses as an object, POST /api/analyze
\* answers success with one question per reported question, in order,
\* where an absent id or text is "", an absent subject or correctAnswer is
\* None, an absent boundingBox is (0, 0, 1000, 1000) and an absent field of
\* a present boundingBox has its own default (ymin, xmin: 0; ymax, xmax:
\* 1000).
C12_AbsentFieldsTakeDefaults ==
    (/\ op = "analyze_image" /\ Done
     /\ Len(Events("model")) = 1
     /\ Events("model")[1].reply.kind = "object") =>
       LET body == Events("model")[1].reply.body
           reported == IF "questions" \in body.keys THEN body.questions ELSE << >>
       IN  /\ response.kind = "AnalyzeImageResponse"
           /\ response.success
           /\ Len(response.questions) = Len(reported)
           /\ \A j \in 1..Len(reported) :
                 DefaultsApplied(reported[j], response.questions[j])

\* C12 witness: a question with only a text, then one whose box has only
\* ymin and xmax
C12_Witness ==
    /\ op = "analyze_image" /\ Done
    /\ Len(Events("model")) = 1
    /\ Events("model")[1].reply = ObjectReply(<< RawBare, RawPartialBox >>)
    /\ response.success
    /\ response.questions[1].id = ""
    /\ response.questions[1].boundingBox = BoundingBox(0, 0, 1000, 1000)
    /\ response.questions[2].text = ""
    /\ response.questions[2].boundingBox = BoundingBox(200, 0, 1000, 600)

\* number of questions a model reply reports
Reported(reply) ==
    IF reply.kind = "object" /\ "questions" \in reply.body.keys
    THEN Len(reply.body.questions) ELSE 0

\* log[p] is the crop of question j of page i
IsCrop(p, i, j) ==
    /\ p \in 1..Len(log)
    /\ log[p].ev = "crop" /\ log[p].page = i /\ log[p].index = j

\* C13: in a document analysis the model is called for page 0 first and
\* once; the call for page i+1 comes right after the work of page i, which
\* is the model call of page i and, when it reported n > 0 questions, the
\* decoding of the page and the crops of questions 1..n in this order, all
\* completed; a crop of question j comes right after the crop of question
\* j-1 of the same page; while a page is being cropped it is the page of
\* the last model call and no later page has started.
C13_PagesAndQuestionsOneAtATime ==
    op = "analyze_pdf" =>
       /\ \A p \in 1..Len(log) :
             log[p].ev = "model" =>
                IF log[p].page = 0
                THEN \A q \in 1..(p - 1) : log[q].ev # "model"
                ELSE \E q \in 1..(p - 1) :
                        /\ log[q].ev = "model"
                        /\ log[q].page = log[p].page - 1
                        /\ log[q].reply.kind = "object"
                        /\ LET n == Reported(log[q].reply)
                           IN  IF n = 0 THEN p = q + 1
                               ELSE /\ p = q + n + 2
                                    /\ log[q + 1] = [ev |-> "decode",
                                                     page |-> log[q].page,
                                                     ok |-> TRUE]
                                    /\ \A j \in 1..n :
                                          IsCrop(q + 1 + j, log[q].page, j)
       /\ \A p \in 1..Len(log) :
             log[p].ev = "crop" =>
                LET j == log[p].index
                    i == log[p].page
                IN  /\ p - j - 1 >= 1
                    /\ log[p - j - 1].ev = "model"
                    /\ log[p - j - 1].page = i
                    /\ j <= Reported(log[p - j - 1].reply)
                    /\ log[p - j].ev = "decode" /\ log[p - j].page = i
                    /\ \A k \in 1..(j - 1) : IsCrop(p - j + k, i, k)
       /\ pc = "extract_crops" =>
             /\ Len(page_results) < Len(page_images)
             /\ Len(segments) = Reported(log[Len(log) - Len(cropped_segments) - 1].reply)
             /\ log[Len(log) - Len(cropped_segments) - 1].page = Len(page_results)
             /\ \A j \in 1..Len(cropped_segments) :
                   IsCrop(Len(log) - Len(cropped_segments) + j,
                          Len(page_results), j)

\* C13 witness: a finished analysis of two pages with two questions each:
\* four crops, the model call of page 1 after both crops of page 0
C13_Witness ==
    /\ op = "analyze_pdf" /\ Done /\ response.kind = "PDFAnalysisResponse"
    /\ response.success
    /\ Len(Events("model")) = 2
    /\ Len(Events("crop")) = 4
    /\ Events("crop")[2].page = 0 /\ Events("crop")[2].index = 2
    /\ Events("crop")[3].page = 1 /\ Events("crop")[3].index = 1

\* the crop events of page i, in call order
CropsOfPage(i) ==
    SelectSeq(log, LAMBDA e : e.ev = "crop" /\ e.page = i)

\* C14: in a successful document analysis, every question of a page with
\* at least one question carries, in pageResults and in allQuestions, the
\* crop engine's output for the same list position of that page (the
\* artifact, or the empty artifact of a crop that failed) and the rendered
\* image of its own page as sourceImageUrl; for a page without questions
\* the crop engine is never entered (no decode, no crop).
C14_CropAndSourceAttachedPerPage ==
    (op = "analyze_pdf" /\ Done /\ response.kind = "PDFAnalysisResponse"
       /\ response.success) =>
       \A k \in 1..Len(response.pageResults) :
          LET qs == response.pageResults[k].questions
              before == SumLen(SubSeq(response.pageResults, 1, k - 1))
          IN  IF qs = << >>
              THEN \A p \in 1..Len(log) :
                      log[p].ev \in { "decode", "crop" } => log[p].page # k - 1
              ELSE /\ Len(CropsOfPage(k - 1)) = Len(qs)
                   /\ \A j \in 1..Len(qs) :
                         /\ qs[j].cropUrl # NoneUrl
                         /\ CropsOfPage(k - 1)[j].index = j
                         /\ qs[j].cropUrl = CropsOfPage(k - 1)[j].url
                         /\ CropsOfPage(k - 1)[j].raised <=> qs[j].cropUrl = EmptyUrl
                         /\ qs[j].sourceImageUrl = page_images[k]
                         /\ qs[j].sourceImageUrl.src = "page"
                         /\ qs[j].sourceImageUrl.page = k - 1
                         /\ response.allQuestions[before + j] = qs[j]

\* C14 witness: page 0 without questions, page 1 with two, the first
\* cropped and the second with a failed crop
C14_Witness ==
    /\ op = "analyze_pdf" /\ Done /\ response.kind = "PDFAnalysisResponse"
    /\ response.success
    /\ Len(response.pageResults) = 2
    /\ response.pageResults[1].questions = << >>
    /\ Len(response.pageResults[2].questions) = 2
    /\ response.pageResults[2].questions[1].cropUrl.mime = "image/png"
    /\ response.pageResults[2].questions[2].cropUrl = EmptyUrl
    /\ response.allQuestions[2].sourceImageUrl.page = 1
    /\ CropsOfPage(0) = << >>

\* the log holds an event of the segmentation or crop stage
StageTwoStarted ==
    \E p \in 1..Len(log) : log[p].ev \in { "model", "decode", "crop" }

\* C16: in POST /api/analyze-pdf every model call, decode and crop comes
\* after the N successful renderings of pages 0..N-1, with the complete
\* list of N page images in the handler's hands and the document closed;
\* when the rendering of a page has failed, no model call and no crop has
\* happened and the request ends as a failure.
C16_AllPagesRenderedBeforeFirstModelCall ==
    op = "analyze_pdf" =>
       /\ \A p \in 1..Len(log) :
             log[p].ev \in { "model", "decode", "crop" } =>
                /\ Len(page_images) = request.pages
                /\ \A k \in 1..request.pages :
                      /\ page_images[k].src = "page"
                      /\ page_images[k].page = k - 1
                      /\ \E q \in 1..(p - 1) :
                            log[q] = [ev |-> "render", page |-> k - 1, ok |-> TRUE]
                /\ \A q \in (p + 1)..Len(log) : log[q].ev # "render"
                /\ doc = "closed"
       /\ \A p \in 1..Len(log) :
             (log[p].ev = "model" /\ log[p].page = 0) =>
                /\ request.pages >= 1
                /\ p = request.pages + 3
                /\ \A k \in 1..request.pages :
                      log[2 + k] = [ev |-> "render", page |-> k - 1, ok |-> TRUE]
       /\ (\E p \in 1..Len(log) : log[p].ev = "render" /\ ~log[p].ok) =>
             /\ ~StageTwoStarted
             /\ Done
             /\ response = PDFAnalysisResponse(FALSE, "", 0, << >>, << >>,
                                               "RuntimeError")

\* C16 witness: page 0 of a two-page document rendered, page 1 failed: the
\* request is over without a model call
C16_Witness ==
    /\ op = "analyze_pdf" /\ Done
    /\ request.pages = 2
    /\ Len(Events("render")) = 2
    /\ Events("render")[1].ok /\ ~Events("render")[2].ok
    /\ ~StageTwoStarted
    /\ ~response.success

\* C16, the other case: the model is being called for page 0 of a two-page
\* document whose two images exist
C16_WitnessModel ==
    /\ op = "analyze_pdf"
    /\ request.pages = 2
    /\ Len(page_images) = 2
    /\ Len(log) = 5 /\ log[5].ev = "model" /\ log[5].page = 0

\* the calls of the accessor of service s that returned, in call order
Returns(s) ==
    SelectSeq(log, LAMBDA e : e.ev = "accessor" /\ e.service = s /\ ~e.raised)

\* C15: under every interleaving of the requests' accessor calls, for each
\* of the three services the first call that returns has constructed
\* instance 1 and every later call returns instance 1 without constructing;
\* at most one instance exists, the global is set exactly when it exists
\* (so it is never reset or replaced), and every handler holds instance 1.
C15_OneInstancePerService ==
    \A s \in Services :
       /\ Instances(s) <= 1
       /\ ServiceHandle(s) # None <=> Instances(s) = 1
       /\ \A k \in 1..Len(Returns(s)) :
             /\ Returns(s)[k].built <=> k = 1
             /\ Returns(s)[k].instance = 1
       /\ \A t \in Tasks :
             /\ tasks[t].got[s] \in { 0, 1 }
             /\ tasks[t].got[s] = 1 => ServiceHandle(s) # None

\* C15 witness: two requests whose handlers both asked for the segmentation
\* client and the crop engine; the second caller of each accessor is a
\* different request from the one that constructed
C15_Witness ==
    /\ \A t \in Tasks : tasks[t].status = "done"
    /\ \A s \in { "gemini", "image" } :
          /\ Len(Returns(s)) >= 2
          /\ Returns(s)[1].task # Returns(s)[2].task
          /\ \A t \in Tasks : tasks[t].got[s] = 1
    /\ Returns("gemini")[1].task # Returns("image")[1].task

====
